---------------------------- MODULE Spec2Model ----------------------------
(***************************************************************************)
(* A model of contest-audio-browser (src/app.py): the session build        *)
(* (metadata, audio index, Cabrillo parse, audio positions), the contest   *)
(* scan of init_contests, the audio window builder, the Cabrillo subset    *)
(* builder and the download_selection request handler.                     *)
(*                                                                         *)
(* Time.  The program computes with float seconds.  The model computes     *)
(* with integer ticks, TicksPerMs ticks to the millisecond, so that a      *)
(* duration need not be a whole number of milliseconds and int(x * 1000)   *)
(* and round(x, 3) are real conversions.                                   *)
(*                                                                         *)
(* Text.  A string is a sequence of one-character strings; a file is the   *)
(* sequence of its lines.                                                  *)
(***************************************************************************)
EXTENDS Integers, Sequences, FiniteSets, TLC

\* ------------------------------------------------------------------ bounds
TicksPerMs == 3
MaxFiles == 3
MaxLines == 3
NumContests == 2

\* ------------------------------------------------------- program constants
MsPerSec == 1000
PRE_SECONDS_DEFAULT == 10
WFreq == 5
WMode == 2
WCall == 13
WRst == 3
WExch == 6
MinParts == 11

\* -------------------------------------------------------------------- time
Ms(n) == n * TicksPerMs
Sec(n) == n * MsPerSec * TicksPerMs
Epsilon == Ms(1)
Max2(a, b) == IF a >= b THEN a ELSE b
Min2(a, b) == IF a <= b THEN a ELSE b

\* int(x * 1000) of a float of seconds: truncation toward zero, in ms.
IntMs(t) == IF t >= 0 THEN t \div TicksPerMs ELSE -((-t) \div TicksPerMs)

\* round(x, 3): to the nearest millisecond, a tie to the even one; in ticks.
Round3(t) ==
  LET a == IF t >= 0 THEN t ELSE -t
      q == a \div TicksPerMs
      r == a % TicksPerMs
      m == IF 2 * r < TicksPerMs THEN q
           ELSE IF 2 * r > TicksPerMs THEN q + 1
           ELSE IF q % 2 = 0 THEN q ELSE q + 1
  IN  IF t >= 0 THEN Ms(m) ELSE -Ms(m)

\* -------------------------------------------------------------------- text
\* None as a string field, as a file name and as a session; a key absent from
\* metadata.json; the outcome of a call that raised
None == <<"None">>
NoFile == 0 - 1
NoSession == [none |-> TRUE]
Absent == <<"absent">>
Failed == [failed |-> TRUE]

IsSpace(c) == c \in {" ", "\t"}
IsDigit(c) == c \in {"0", "1", "2", "3", "4", "5", "6", "7", "8", "9"}
DigitVal(c) ==
  CASE c = "0" -> 0 [] c = "1" -> 1 [] c = "2" -> 2 [] c = "3" -> 3
    [] c = "4" -> 4 [] c = "5" -> 5 [] c = "6" -> 6 [] c = "7" -> 7
    [] c = "8" -> 8 [] c = "9" -> 9
DigitChar(n) ==
  CASE n = 0 -> "0" [] n = 1 -> "1" [] n = 2 -> "2" [] n = 3 -> "3"
    [] n = 4 -> "4" [] n = 5 -> "5" [] n = 6 -> "6" [] n = 7 -> "7"
    [] n = 8 -> "8" [] n = 9 -> "9"

RECURSIVE LStrip(_)
LStrip(s) == IF s # <<>> /\ IsSpace(Head(s)) THEN LStrip(Tail(s)) ELSE s
RECURSIVE RStrip(_)
RStrip(s) ==
  IF s # <<>> /\ IsSpace(s[Len(s)]) THEN RStrip(SubSeq(s, 1, Len(s) - 1)) ELSE s
\* str.strip()
Strip(s) == RStrip(LStrip(s))
\* str.startswith(p)
StartsWith(s, p) == Len(s) >= Len(p) /\ SubSeq(s, 1, Len(p)) = p

\* the k-th smallest member of a set of numbers
Kth(S, k) == CHOOSE x \in S : Cardinality({y \in S : y < x}) = k - 1
\* str.split(): the whitespace-delimited tokens, each a maximal run of
\* characters that are not whitespace
Split(s) ==
  LET first == {i \in 1..Len(s) : ~IsSpace(s[i]) /\ (i = 1 \/ IsSpace(s[i - 1]))}
      last == {i \in 1..Len(s) : ~IsSpace(s[i]) /\ (i = Len(s) \/ IsSpace(s[i + 1]))}
  IN  [k \in 1..Cardinality(first) |-> SubSeq(s, Kth(first, k), Kth(last, k))]

RECURSIVE SplitOnAcc(_, _, _, _)
SplitOnAcc(s, ch, cur, acc) ==
  IF s = <<>> THEN Append(acc, cur)
  ELSE IF Head(s) = ch THEN SplitOnAcc(Tail(s), ch, <<>>, Append(acc, cur))
       ELSE SplitOnAcc(Tail(s), ch, Append(cur, Head(s)), acc)
\* the fields of s between occurrences of the character ch
SplitOn(s, ch) == SplitOnAcc(s, ch, <<>>, <<>>)

RECURSIVE Spaces(_)
Spaces(n) == IF n <= 0 THEN <<>> ELSE <<" ">> \o Spaces(n - 1)
\* format spec :>w and :<w : pad to width w, never truncate
\* a variant of RJust that cuts a field wider than its column
RJustCut(s, w) == IF Len(s) > w THEN SubSeq(s, 1, w) ELSE Spaces(w - Len(s)) \o s
RJust(s, w) == Spaces(w - Len(s)) \o s
LJust(s, w) == s \o Spaces(w - Len(s))

RECURSIVE Join(_, _)
\* sep.join(lines)
Join(lines, sep) ==
  IF lines = <<>> THEN <<>>
  ELSE IF Len(lines) = 1 THEN lines[1]
  ELSE lines[1] \o sep \o Join(Tail(lines), sep)

\* iterating a text file, each line with its "\n" removed: a line ends at
\* each "\n", and what follows the last "\n" is a line when it is not empty
ReadLines(text) ==
  LET nl == {i \in 1..Len(text) : text[i] = "\n"}
      ends == nl \cup (IF Len(text) > 0 /\ text[Len(text)] # "\n"
                       THEN {Len(text) + 1} ELSE {})
      begins == {0} \cup nl
  IN  [k \in 1..Cardinality(ends) |-> SubSeq(text, Kth(begins, k) + 1, Kth(ends, k) - 1)]

\* ---------------------------------------------------------------- datetime
AllDigits(s) == \A i \in 1..Len(s) : IsDigit(s[i])
RECURSIVE NumVal(_)
NumVal(s) == IF s = <<>> THEN 0 ELSE 10 * NumVal(SubSeq(s, 1, Len(s) - 1)) + DigitVal(s[Len(s)])
\* a field of 1 to 2 digits (a strptime %m %d %H %M %S field); -1 otherwise
Num12(s) == IF Len(s) \in {1, 2} /\ AllDigits(s) THEN NumVal(s) ELSE -1

IsLeap(y) == (y % 4 = 0 /\ y % 100 # 0) \/ y % 400 = 0
DaysInMonth(y, m) ==
  IF m = 2 THEN (IF IsLeap(y) THEN 29 ELSE 28)
  ELSE IF m \in {4, 6, 9, 11} THEN 30 ELSE 31
RECURSIVE DaysBeforeMonth(_, _)
DaysBeforeMonth(y, m) == IF m <= 1 THEN 0 ELSE DaysBeforeMonth(y, m - 1) + DaysInMonth(y, m - 1)
\* date.toordinal(): days since 0001-01-01, plus one
Ordinal(y, m, d) ==
  LET p == y - 1
  IN  365 * p + (p \div 4) - (p \div 100) + (p \div 400) + DaysBeforeMonth(y, m) + d

\* strptime %Y-%m-%d: [year, month, day], or Failed
ParseDate(tok) ==
  LET f == SplitOn(tok, "-")
  IN  IF Len(f) # 3 THEN Failed
      ELSE LET y == IF Len(f[1]) = 4 /\ AllDigits(f[1]) THEN NumVal(f[1]) ELSE -1
               m == Num12(f[2])
               d == Num12(f[3])
           IN  IF y < 1 \/ m < 1 \/ m > 12 \/ d < 1 THEN Failed
               ELSE IF d > DaysInMonth(y, m) THEN Failed
               ELSE [year |-> y, month |-> m, day |-> d]

\* strptime %H%M on a token: the second of the day, or -1.  %H takes two
\* digits when they make an hour (00..23) and a digit is left for %M,
\* else one digit; %M takes two digits when they make a minute, else one;
\* a digit left over is an error.
ParseHHMM(tok) ==
  IF ~AllDigits(tok) \/ Len(tok) < 2 \/ Len(tok) > 4 THEN -1
  ELSE LET v(i) == DigitVal(tok[i])
           two == 10 * v(1) + v(2)
       IN  IF Len(tok) = 4
             THEN (IF two <= 23 /\ 10 * v(3) + v(4) <= 59
                   THEN two * 3600 + (10 * v(3) + v(4)) * 60 ELSE -1)
           ELSE IF Len(tok) = 3
             THEN (IF two <= 23 THEN two * 3600 + v(3) * 60
                   ELSE IF 10 * v(2) + v(3) <= 59
                        THEN v(1) * 3600 + (10 * v(2) + v(3)) * 60 ELSE -1)
           ELSE v(1) * 3600 + v(2) * 60

\* strptime %H:%M:%S (withSec) or %H:%M on a token: second of the day, or -1
ParseClock(tok, withSec) ==
  LET f == SplitOn(tok, ":")
  IN  IF Len(f) # (IF withSec THEN 3 ELSE 2) THEN -1
      ELSE LET h == Num12(f[1])
               m == Num12(f[2])
               s == IF withSec THEN Num12(f[3]) ELSE 0
           IN  IF h < 0 \/ h > 23 \/ m < 0 \/ m > 59 \/ s < 0 \/ s > 59 THEN -1
               ELSE h * 3600 + m * 60 + s

\* a datetime of a parsed date and a second of the day
DateTime(d, s) ==
  [year |-> d.year, month |-> d.month, day |-> d.day,
   hour |-> s \div 3600, minute |-> (s % 3600) \div 60, second |-> s % 60]
SecondOfDay(a) == a.hour * 3600 + a.minute * 60 + a.second
\* (a - b).total_seconds(), in ticks
TotalSeconds(a, b) ==
  Sec((Ordinal(a.year, a.month, a.day) - Ordinal(b.year, b.month, b.day)) * 86400
      + (SecondOfDay(a) - SecondOfDay(b)))

\* a number in decimal, zero-padded to w digits
RECURSIVE ZeroPad(_, _)
ZeroPad(n, w) ==
  IF w <= 1 /\ n < 10 THEN <<DigitChar(n)>>
  ELSE Append(ZeroPad(n \div 10, w - 1), DigitChar(n % 10))
\* strftime("%Y-%m-%d") and strftime("%H%M"), for years of four digits
FormatDate(a) == ZeroPad(a.year, 4) \o <<"-">> \o ZeroPad(a.month, 2) \o <<"-">> \o ZeroPad(a.day, 2)
FormatHHMM(a) == ZeroPad(a.hour, 2) \o ZeroPad(a.minute, 2)

\* datetime.strptime(date + " " + time, "%Y-%m-%d %H%M"): a datetime or Failed
ParseQsoTime(date, time) ==
  LET o == ParseDate(date)
      s == ParseHHMM(time)
  IN  IF o = Failed \/ s < 0 THEN Failed ELSE DateTime(o, s)


\* ----------------------------------------------------------------- session
QsoMarker == <<"Q","S","O",":">>
StartOfLogMarker == <<"S","T","A","R","T","-","O","F","-","L","O","G">>
StartOfLogLine == <<"S","T","A","R","T","-","O","F","-","L","O","G",":"," ","3",".","0">>
EndOfLogLine == <<"E","N","D","-","O","F","-","L","O","G",":">>

\* ContestSession.__init__ before _build
NewSession(id) ==
  [id |-> id, audio_index |-> <<>>, header_lines |-> <<>>, qsos |-> <<>>,
   recording_start_utc |-> None, contest_start_utc |-> None,
   pre_seconds |-> Sec(PRE_SECONDS_DEFAULT)]

\* _parse_time_utc: 'YYYY-MM-DD HH:MM:SS' or 'YYYY-MM-DD HH:MM'; a datetime or Failed
ParseTimeUtc(s) ==
  LET t == Split(s)
  IN  IF s = None THEN Failed
      ELSE IF Len(t) # 2 \/ Strip(s) # s THEN Failed
      ELSE LET o == ParseDate(t[1])
               a == ParseClock(t[2], TRUE)
               b == ParseClock(t[2], FALSE)
           IN  IF o = Failed THEN Failed
               ELSE IF a >= 0 THEN DateTime(o, a)
               ELSE IF b >= 0 THEN DateTime(o, b)
               ELSE Failed

\* _load_metadata on the parsed metadata.json: the session, or Failed
LoadMetadataOf(s, d) ==
  IF ~d.has_meta THEN Failed
  ELSE IF d.meta.recording_start_utc = Absent \/ d.meta.contest_start_utc = Absent
    THEN Failed
  ELSE [s EXCEPT !.recording_start_utc = d.meta.recording_start_utc,
                 !.contest_start_utc = d.meta.contest_start_utc,
                 !.pre_seconds = IF d.meta.pre_kind = "absent" THEN @
                                 ELSE IF d.meta.pre_kind = "number"
                                      THEN d.meta.pre_seconds
                                      ELSE Sec(PRE_SECONDS_DEFAULT)]

\* an .mp3 file name; name 0 stands for a file of another kind
IsMp3(name) == name > 0

RECURSIVE InsertSorted(_, _)
InsertSorted(x, s) ==
  IF s = <<>> THEN <<x>>
  ELSE IF x <= Head(s) THEN <<x>> \o s ELSE <<Head(s)>> \o InsertSorted(x, Tail(s))
RECURSIVE SortNames(_)
\* list.sort()
SortNames(s) == IF s = <<>> THEN <<>> ELSE InsertSorted(Head(s), SortNames(Tail(s)))

RECURSIVE IndexLoopGap(_, _, _, _)
\* a variant of IndexLoop that starts each segment on a whole millisecond
IndexLoopGap(files, length, start, index) ==
  IF files = <<>> THEN index
  ELSE LET name == Head(files)
           duration == length[name]
       IN  IndexLoopGap(Tail(files), length, Round3(start + duration + 1),
                        Append(index, [filename |-> name, start |-> start,
                                       end |-> start + duration]))

RECURSIVE IndexLoop(_, _, _, _)
\* the loop of _build_audio_index over the sorted names
IndexLoop(files, length, start, index) ==
  IF files = <<>> THEN index
  ELSE LET name == Head(files)
           duration == length[name]
       IN  IndexLoop(Tail(files), length, start + duration,
                     Append(index, [filename |-> name, start |-> start,
                                    end |-> start + duration]))

\* _build_audio_index on a directory listing: the session, or Failed
BuildAudioIndexOf(s, listing, length) ==
  LET files == SortNames(SelectSeq(listing, IsMp3))
  IN  IF files = <<>> THEN Failed
      ELSE [s EXCEPT !.audio_index = IndexLoop(files, length, 0, <<>>)]

RECURSIVE ParseLoopLate(_, _, _, _)
\* a variant of ParseLoop where a short QSO line does not end the header
ParseLoopLate(lines, headers, qsos, in_qso) ==
  IF lines = <<>> THEN [headers |-> headers, qsos |-> qsos]
  ELSE LET raw == Head(lines)
           stripped == Strip(raw)
           parts == Split(stripped)
       IN  IF StartsWith(stripped, QsoMarker)
           THEN IF Len(parts) < MinParts
                THEN ParseLoopLate(Tail(lines), headers, qsos, in_qso)
                ELSE LET dt == ParseQsoTime(parts[4], parts[5])
                     IN  IF dt = Failed THEN Failed
                         ELSE ParseLoopLate(Tail(lines), headers,
                                Append(qsos,
                                  [datetime |-> dt, freq |-> parts[2], mode |-> parts[3],
                                   mycall |-> parts[6], rst_s |-> parts[7],
                                   exch_s |-> parts[8], hiscall |-> parts[9],
                                   rst_r |-> parts[10], exch_r |-> parts[11]]),
                                TRUE)
           ELSE ParseLoopLate(Tail(lines),
                              IF in_qso THEN headers ELSE Append(headers, raw),
                              qsos, in_qso)

RECURSIVE ParseLoop(_, _, _, _)
\* the loop of _parse_cabrillo: [headers, qsos], or Failed when strptime raises
ParseLoop(lines, headers, qsos, in_qso) ==
  IF lines = <<>> THEN [headers |-> headers, qsos |-> qsos]
  ELSE LET raw == Head(lines)
           stripped == Strip(raw)
           parts == Split(stripped)
       IN  IF StartsWith(stripped, QsoMarker)
           THEN IF Len(parts) < MinParts
                THEN ParseLoop(Tail(lines), headers, qsos, TRUE)
                ELSE LET dt == ParseQsoTime(parts[4], parts[5])
                     IN  IF dt = Failed THEN Failed
                         ELSE ParseLoop(Tail(lines), headers,
                                Append(qsos,
                                  [datetime |-> dt, freq |-> parts[2], mode |-> parts[3],
                                   mycall |-> parts[6], rst_s |-> parts[7],
                                   exch_s |-> parts[8], hiscall |-> parts[9],
                                   rst_r |-> parts[10], exch_r |-> parts[11]]),
                                TRUE)
           ELSE ParseLoop(Tail(lines), IF in_qso THEN headers ELSE Append(headers, raw),
                          qsos, in_qso)

ParseText(lines) == ParseLoop(lines, <<>>, <<>>, FALSE)

\* _parse_cabrillo on the lines of contest.log: the session, or Failed
ParseCabrilloOf(s, lines) ==
  LET r == ParseText(lines)
  IN  IF r = Failed THEN Failed
      ELSE [s EXCEPT !.header_lines = r.headers, !.qsos = r.qsos]

RECURSIVE FindFileClosed(_, _)
\* a variant of FindFile whose segments are closed at their end
FindFileClosed(index, start_play) ==
  IF index = <<>> THEN [file |-> NoFile, offset |-> 0]
  ELSE LET f == Head(index)
       IN  IF start_play >= f.start /\ start_play <= f.end
           THEN [file |-> f.filename, offset |-> start_play - f.start]
           ELSE FindFileClosed(Tail(index), start_play)

RECURSIVE FindFile(_, _)
\* the scan of the audio index for the segment holding start_play
FindFile(index, start_play) ==
  IF index = <<>> THEN [file |-> NoFile, offset |-> 0]
  ELSE LET f == Head(index)
       IN  IF start_play >= f.start /\ start_play < f.end
           THEN [file |-> f.filename, offset |-> start_play - f.start]
           ELSE FindFile(Tail(index), start_play)

\* a variant of ClampPlay with the floor only
ClampPlayFloor(start_play, total_duration) == Max2(0, start_play)

\* max(0.0, min(start_play, total_duration - 0.001))
ClampPlay(start_play, total_duration) ==
  Max2(0, Min2(start_play, total_duration - Epsilon))

\* a variant of AttachOne that stores the playback start as the offset
AttachOnePlay(s, i, rec_start, contest_start) ==
  LET q == s.qsos[i]
      total_duration == s.audio_index[Len(s.audio_index)].end
      offset_rec_vs_contest == TotalSeconds(contest_start, rec_start)
      delta_qso_vs_contest == TotalSeconds(q.datetime, contest_start)
      abs_rec_second == offset_rec_vs_contest + delta_qso_vs_contest
      start_play == abs_rec_second - s.pre_seconds
      hit == IF total_duration <= 0 THEN [file |-> NoFile, offset |-> 0]
             ELSE FindFile(s.audio_index, ClampPlay(start_play, total_duration))
  IN  q @@ [index |-> i, abs_rec_second |-> ClampPlay(start_play, total_duration),
            file |-> hit.file, file_offset |-> Round3(hit.offset)]

\* the body of the loop of _attach_audio_positions for event i
AttachOne(s, i, rec_start, contest_start) ==
  LET q == s.qsos[i]
      total_duration == s.audio_index[Len(s.audio_index)].end
      offset_rec_vs_contest == TotalSeconds(contest_start, rec_start)
      delta_qso_vs_contest == TotalSeconds(q.datetime, contest_start)
      abs_rec_second == offset_rec_vs_contest + delta_qso_vs_contest
      start_play == abs_rec_second - s.pre_seconds
      hit == IF total_duration <= 0 THEN [file |-> NoFile, offset |-> 0]
             ELSE FindFile(s.audio_index, ClampPlay(start_play, total_duration))
  IN  q @@ [index |-> i, abs_rec_second |-> abs_rec_second,
            file |-> hit.file, file_offset |-> Round3(hit.offset)]

\* _attach_audio_positions: the session, or Failed when an anchor does not parse
AttachAudioPositionsOf(s) ==
  LET rec_start == ParseTimeUtc(s.recording_start_utc)
      contest_start == ParseTimeUtc(s.contest_start_utc)
  IN  IF rec_start = Failed \/ contest_start = Failed THEN Failed
      ELSE IF s.audio_index = <<>> THEN s
      ELSE [s EXCEPT !.qsos = [i \in 1..Len(s.qsos) |->
                                 AttachOne(s, i, rec_start, contest_start)]]


\* ------------------------------------------------------------ audio window
\* len() of the audio decoded from a file of the given duration: whole ms
DecodedLenMs(duration) == Round3(duration) \div TicksPerMs

\* audio[a:b] of a decoded file of len ms: the slice stops at the file's end
Slice(filename, a, b, len) ==
  [filename |-> filename, from |-> Min2(a, len), to |-> Min2(b, len)]

RECURSIVE AudioLen(_)
\* len() of an audio buffer made of slices
AudioLen(combined) ==
  IF combined = <<>> THEN 0
  ELSE (Head(combined).to - Head(combined).from) + AudioLen(Tail(combined))

RECURSIVE WindowLoop(_, _, _, _, _)
\* the loop of build_audio_window: the files decoded and the slices appended
WindowLoop(index, start_ms, end_ms, decoded, combined) ==
  IF index = <<>> THEN [decoded |-> decoded, combined |-> combined]
  ELSE LET f == Head(index)
           file_start_ms == IntMs(f.start)
           file_end_ms == IntMs(f.end)
           overlap_start == Max2(start_ms, file_start_ms)
           overlap_end == Min2(end_ms, file_end_ms)
           local_start == overlap_start - file_start_ms
           local_end == overlap_end - file_start_ms
           piece == Slice(f.filename, local_start, local_end,
                          DecodedLenMs(f.end - f.start))
       IN  IF overlap_end <= overlap_start
           THEN WindowLoop(Tail(index), start_ms, end_ms, decoded, combined)
           ELSE WindowLoop(Tail(index), start_ms, end_ms,
                           Append(decoded, f.filename),
                           IF piece.to > piece.from THEN Append(combined, piece)
                           ELSE combined)

ErrNoIndex == "No audio index for contest"
ErrEmptyWindow == "Requested audio window is empty or out of range."
ErrNoAudio == "No audio in requested window."

\* a variant of BuildAudioWindowOf that lets a window of no length through
BuildAudioWindowStrict(s, start_s0, end_s0) ==
  IF s.audio_index = <<>>
  THEN [err |-> ErrNoIndex, decoded |-> <<>>, combined |-> <<>>]
  ELSE LET total == s.audio_index[Len(s.audio_index)].end
           start_s == Max2(0, start_s0)
           end_s == Min2(total, end_s0)
       IN  IF end_s < start_s
           THEN [err |-> ErrEmptyWindow, decoded |-> <<>>, combined |-> <<>>]
           ELSE LET r == WindowLoop(s.audio_index, IntMs(start_s), IntMs(end_s),
                                    <<>>, <<>>)
                IN  [err |-> IF AudioLen(r.combined) = 0 THEN ErrNoAudio ELSE "",
                     decoded |-> r.decoded, combined |-> r.combined]

\* build_audio_window(start_s, end_s): err is "" when the audio is returned
BuildAudioWindowOf(s, start_s0, end_s0) ==
  IF s.audio_index = <<>>
  THEN [err |-> ErrNoIndex, decoded |-> <<>>, combined |-> <<>>]
  ELSE LET total == s.audio_index[Len(s.audio_index)].end
           start_s == Max2(0, start_s0)
           end_s == Min2(total, end_s0)
       IN  IF end_s <= start_s
           THEN [err |-> ErrEmptyWindow, decoded |-> <<>>, combined |-> <<>>]
           ELSE LET r == WindowLoop(s.audio_index, IntMs(start_s), IntMs(end_s),
                                    <<>>, <<>>)
                IN  [err |-> IF AudioLen(r.combined) = 0 THEN ErrNoAudio ELSE "",
                     decoded |-> r.decoded, combined |-> r.combined]

\* ---------------------------------------------------------- Cabrillo subset
\* the line build_cabrillo_subset writes for one event
FormatQso(q) ==
  <<"Q","S","O",":"," ">> \o RJust(q.freq, WFreq) \o <<" ">> \o RJust(q.mode, WMode) \o <<" ">>
    \o FormatDate(q.datetime) \o <<" ">> \o FormatHHMM(q.datetime) \o <<" ">>
    \o LJust(q.mycall, WCall) \o <<" ">> \o RJust(q.rst_s, WRst) \o <<" ">>
    \o LJust(q.exch_s, WExch) \o <<" ">>
    \o LJust(q.hiscall, WCall) \o <<" ">> \o RJust(q.rst_r, WRst) \o <<" ">>
    \o LJust(q.exch_r, WExch)

\* build_cabrillo_subset(selected_qsos): the text
BuildCabrilloSubsetOf(s, selected_qsos) ==
  LET lines == IF \E i \in 1..Len(s.header_lines) :
                    StartsWith(s.header_lines[i], StartOfLogMarker)
               THEN s.header_lines
               ELSE <<StartOfLogLine>> \o s.header_lines
      qlines == [i \in 1..Len(selected_qsos) |-> FormatQso(selected_qsos[i])]
  IN  Join(Append(lines, <<>>) \o qlines \o <<EndOfLogLine>>, <<"\n">>)


\* ------------------------------------------------------ download_selection
RECURSIVE SeqMin(_)
SeqMin(s) == IF Len(s) = 1 THEN s[1] ELSE Min2(s[1], SeqMin(Tail(s)))
RECURSIVE SeqMax(_)
SeqMax(s) == IF Len(s) = 1 THEN s[1] ELSE Max2(s[1], SeqMax(Tail(s)))

\* a form field: absent, an integer in decimal, or other text
FormAbsent == [kind |-> "absent", val |-> 0]
FormText == [kind |-> "text", val |-> 0]
FormInt(n) == [kind |-> "int", val |-> n]
\* int(request.form.get(name, "0")), for a field int() accepts
IntOfForm(v) == IF v.kind = "absent" THEN 0 ELSE v.val

NoResponse == [op |-> "none"]

\* a variant of InvalidRange that lets index 0 through
InvalidRangeLax(start_idx, end_idx) ==
  start_idx < 0 \/ end_idx < 0 \/ end_idx < start_idx

\* the range test of contest_download_selection
InvalidRange(start_idx, end_idx) ==
  start_idx <= 0 \/ end_idx <= 0 \/ end_idx < start_idx

\* contest_download_selection: the response.  selected holds the index of
\* each selected event, span the arguments build_audio_window was called
\* with (empty when it was not called), audio the slices of the snippet.
DownloadSelectionOf(cs, contest_id, start_index, end_index) ==
  LET r == [op |-> "download", contest |-> contest_id,
            start_index |-> start_index, end_index |-> end_index,
            code |-> 404, body |-> "Unknown contest", selected |-> <<>>,
            span |-> <<>>, decoded |-> <<>>, audio |-> <<>>, cab_text |-> <<>>]
  IN  IF contest_id \notin DOMAIN cs THEN r
      ELSE IF start_index.kind = "text" \/ end_index.kind = "text"
        THEN [r EXCEPT !.code = 400, !.body = "Invalid indices"]
      ELSE
        LET sess == cs[contest_id]
            start_idx == IntOfForm(start_index)
            end_idx == IntOfForm(end_index)
            InRange(q) == start_idx <= q.index /\ q.index <= end_idx
            selected == SelectSeq(sess.qsos, InRange)
            centers == [i \in 1..Len(selected) |-> selected[i].abs_rec_second]
            start_s == SeqMin(centers) - sess.pre_seconds
            end_s == SeqMax(centers) + sess.pre_seconds
            w == BuildAudioWindowOf(sess, start_s, end_s)
            picked == [i \in 1..Len(selected) |-> selected[i].index]
        IN  IF InvalidRange(start_idx, end_idx)
              THEN [r EXCEPT !.code = 400, !.body = "Invalid range"]
            ELSE IF selected = <<>>
              THEN [r EXCEPT !.code = 400, !.body = "No QSOs in selected range"]
            ELSE IF w.err # ""
              THEN [r EXCEPT !.code = 500, !.body = w.err, !.selected = picked,
                             !.span = <<start_s, end_s>>, !.decoded = w.decoded]
            ELSE [r EXCEPT !.code = 200, !.body = "zip", !.selected = picked,
                           !.span = <<start_s, end_s>>, !.decoded = w.decoded,
                           !.audio = w.combined,
                           !.cab_text = BuildCabrilloSubsetOf(sess, selected)]

\* ------------------------------------------------------------------- state
VARIABLES
  fs,        \* the contest directories under CONTESTS_ROOT, in sorted order
  pos,       \* init_contests: the directory the scan is at
  pc,        \* scan | meta | index | parse | attach | built | serve
  self,      \* the ContestSession under construction, or NoSession
  contests,  \* the registry: contest id -> ContestSession
  resp,      \* the result of the last request or call
  prev       \* the HTTP status of the request before it (0: none)

vars == <<fs, pos, pc, self, contests, resp, prev>>

\* the state after the module's globals are set, before init_contests runs
InitOn(dirs) ==
  /\ fs \in dirs
  /\ pos = 1
  /\ pc = "scan"
  /\ self = NoSession
  /\ contests = <<>>
  /\ resp = NoResponse
  /\ prev = 0

\* a variant of Step where a build that raises ends the whole scan
StepAbort(result, next) ==
  IF result = Failed
  THEN self' = NoSession /\ pc' = "serve" /\ pos' = pos
  ELSE self' = result /\ pc' = next /\ pos' = pos

\* ------------------------------------------------------------ init_contests
\* the try/except around ContestSession(name, base): a step of the build that
\* raises ends this contest and the scan goes on; otherwise the build goes on
Step(result, next) ==
  IF result = Failed
  THEN self' = NoSession /\ pc' = "scan" /\ pos' = pos + 1
  ELSE self' = result /\ pc' = next /\ pos' = pos

\* the head of the loop over sorted(os.listdir(CONTESTS_ROOT))
ScanDir ==
  /\ pc = "scan" /\ pos <= Len(fs)
  /\ IF ~fs[pos].isdir \/ ~fs[pos].has_audio \/ ~fs[pos].has_log \/ ~fs[pos].has_meta
     THEN pos' = pos + 1 /\ UNCHANGED <<pc, self>>
     ELSE self' = NewSession(pos) /\ pc' = "meta" /\ UNCHANGED pos
  /\ UNCHANGED <<fs, contests, resp, prev>>

LoadMetadata ==
  /\ pc = "meta"
  /\ Step(LoadMetadataOf(self, fs[pos]), "index")
  /\ UNCHANGED <<fs, contests, resp, prev>>

\* os.listdir(audio_dir): the names, in any order
Listings(d) ==
  LET names == (DOMAIN d.mp3) \cup (IF d.other THEN {0} ELSE {})
      n == Cardinality(names)
  IN  {l \in [1..n -> names] : \A i, j \in 1..n : l[i] = l[j] => i = j}

BuildAudioIndex ==
  /\ pc = "index"
  /\ \E listing \in Listings(fs[pos]) :
       Step(BuildAudioIndexOf(self, listing, fs[pos].mp3), "parse")
  /\ UNCHANGED <<fs, contests, resp, prev>>

ParseCabrillo ==
  /\ pc = "parse"
  /\ Step(ParseCabrilloOf(self, fs[pos].log), "attach")
  /\ UNCHANGED <<fs, contests, resp, prev>>

AttachAudioPositions ==
  /\ pc = "attach"
  /\ Step(AttachAudioPositionsOf(self), "built")
  /\ UNCHANGED <<fs, contests, resp, prev>>

\* contests[name] = <the session the constructor returned>
Register ==
  /\ pc = "built"
  /\ contests' = (pos :> self) @@ contests
  /\ self' = NoSession
  /\ pc' = "scan"
  /\ pos' = pos + 1
  /\ UNCHANGED <<fs, resp, prev>>

\* the loop ends; the application serves requests
ScanDone ==
  /\ pc = "scan" /\ pos > Len(fs)
  /\ pc' = "serve"
  /\ UNCHANGED <<fs, pos, self, contests, resp, prev>>

InitContests ==
  \/ ScanDir \/ LoadMetadata \/ BuildAudioIndex \/ ParseCabrillo
  \/ AttachAudioPositions \/ Register \/ ScanDone

\* ---------------------------------------------------------------- requests
PrevCode == IF resp.op = "download" THEN resp.code ELSE prev

\* POST /contest/<contest_id>/download_selection
DownloadSelection(contest_id, start_index, end_index) ==
  /\ pc = "serve"
  /\ resp' = DownloadSelectionOf(contests, contest_id, start_index, end_index)
  /\ prev' = PrevCode
  /\ UNCHANGED <<fs, pos, pc, self, contests>>

\* a call of ContestSession.build_audio_window on a registered session
BuildAudioWindow(contest_id, start_s, end_s) ==
  /\ pc = "serve"
  /\ contest_id \in DOMAIN contests
  /\ resp' = [op |-> "window", contest |-> contest_id,
              start_s |-> start_s, end_s |-> end_s,
              result |-> BuildAudioWindowOf(contests[contest_id], start_s, end_s)]
  /\ prev' = PrevCode
  /\ UNCHANGED <<fs, pos, pc, self, contests>>

\* a call of ContestSession.build_cabrillo_subset with all the events
BuildCabrilloSubset(contest_id) ==
  /\ pc = "serve"
  /\ contest_id \in DOMAIN contests
  /\ resp' = [op |-> "cabrillo", contest |-> contest_id,
              text |-> BuildCabrilloSubsetOf(contests[contest_id],
                                             contests[contest_id].qsos)]
  /\ prev' = PrevCode
  /\ UNCHANGED <<fs, pos, pc, self, contests>>


\* ------------------------------------------------------------------ inputs
Meta(rec, con, kind, pre) ==
  [recording_start_utc |-> rec, contest_start_utc |-> con,
   pre_kind |-> kind, pre_seconds |-> pre]
Dir(meta, mp3, other, log) ==
  [isdir |-> TRUE, has_audio |-> TRUE, has_log |-> TRUE, has_meta |-> TRUE,
   meta |-> meta, mp3 |-> mp3, other |-> other, log |-> log]

RecStart == <<"2","0","2","4","-","0","6","-","0","1"," ","0","0",":","0","0",":","0","0">>
ConStart == <<"2","0","2","4","-","0","6","-","0","1"," ","0","0",":","0","1">>
BadAnchor == <<"2","0","2","4","-","0","6","-","0","1","T","0","0",":","0","0",":","0","0">>
MetaDefault == Meta(RecStart, ConStart, "absent", 0)
MetaJunkPre == Meta(RecStart, ConStart, "junk", 0)
MetaFraction == Meta(RecStart, ConStart, "number", Sec(2) + 1)
MetaNegative == Meta(ConStart, RecStart, "number", 0 - Sec(30))
MetaNoKey == Meta(RecStart, Absent, "absent", 0)
MetaBadAnchor == Meta(BadAnchor, ConStart, "absent", 0)

Day0 == <<"2","0","2","4","-","0","5","-","3","1">>
Day1 == <<"2","0","2","4","-","0","6","-","0","1">>
QsoAt(date, time) ==
  <<"Q","S","O",":"," ","7","0","0","0"," ","C","W"," ">> \o date \o <<" ">> \o time \o <<" ","W","1","A","W"," ","5","9","9"," ","1"," ","K","2","A","B","C"," ","5","9","9"," ","2">>
HeaderStart == <<"S","T","A","R","T","-","O","F","-","L","O","G",":"," ","3",".","0">>
HeaderCall == <<"C","A","L","L","S","I","G","N",":"," ","W","1","A","W">>
LineNote == <<" ","X","-","Q","S","O",":"," ","7","0","0","0"," ","C","W"," ","2","0","2","4","-","0","6","-","0","1"," ","0","0","0","1"," ","W","1","A","W"," ","5","9","9"," ","1"," ","K","2","A","B","C"," ","5","9","9"," ","2">>
LineGood == <<"Q","S","O",":"," ","1","4","2","5","0"," ","S","S","B"," ","2","0","2","4","-","0","6","-","0","1"," ","1","2","3","0"," ","W","1","A","W"," ","5","9"," ","0","0","1"," ","K","2","A","B","C"," ","5","9"," ","0","4","2">>
LineWide == <<" "," ","Q","S","O",":","\t","1","4","2","5","0","0"," ","R","T","T","Y"," ","2","0","2","4","-","6","-","1"," ","9","3","0"," ","V","E","R","Y","L","O","N","G","C","A","L","L","/","Q","R","P"," ","5","9","9","9"," ","1","2","3","4","5","6","7"," ","K"," ","5"," ","2"," ","e","x","t","r","a">>
LineGlued == <<"Q","S","O",":","X"," ","7","0","0","0"," ","C","W"," ","2","0","2","4","-","0","6","-","0","1"," ","0","0","0","3"," ","A"," ","5","9","9"," ","1"," ","B"," ","5","9","9"," ","2">>
LineShort == <<"Q","S","O",":"," ","7","0","0","0"," ","C","W"," ","2","0","2","4","-","0","6","-","0","1"," ","0","0","0","3"," ","W","1","A","W"," ","5","9","9"," ","1"," ","K","2","A","B","C"," ","5","9","9">>
LineBadTime == <<"Q","S","O",":"," ","7","0","0","0"," ","C","W"," ","2","0","2","4","-","0","6","-","0","1"," ","2","4","6","0"," ","W","1","A","W"," ","5","9","9"," ","1"," ","K","2","A","B","C"," ","5","9","9"," ","2">>

\* the lengths of an audio file, in ticks
DurSet == {0, 1, Sec(60), Sec(60) + 1, Sec(60) + 2}
Mp3Sets(lens, n) == UNION {[1..k -> lens] : k \in 0..n}
Texts(lines, n) == UNION {[1..k -> lines] : k \in 0..n}

\* ---------------------------------------------------------- specifications
\* the scan of init_contests over NumContests directories
ScanDirs ==
  LET good == Dir(MetaDefault, <<Sec(60), Sec(60)>>, TRUE,
                  <<HeaderStart, LineGood, LineShort>>)
  IN  { good,
        Dir(MetaJunkPre, <<Sec(60) + 1>>, FALSE, <<LineGood, LineNote>>),
        [good EXCEPT !.isdir = FALSE],
        [good EXCEPT !.has_audio = FALSE],
        [good EXCEPT !.has_log = FALSE],
        [good EXCEPT !.has_meta = FALSE],
        [good EXCEPT !.meta = MetaNoKey],
        [good EXCEPT !.meta = MetaBadAnchor],
        [good EXCEPT !.mp3 = <<>>],
        [good EXCEPT !.log = <<HeaderStart, LineGood, LineBadTime>>] }
Init == InitOn([1..NumContests -> ScanDirs])
Next == InitContests
Spec == Init /\ [][Next]_vars

\* one session built over many timelines, logs and settings
MapLogs ==
  { <<>>,
    <<QsoAt(Day1, <<"0","0","0","0">>), QsoAt(Day1, <<"0","0","0","1">>), QsoAt(Day1, <<"0","0","0","2">>)>>,
    <<QsoAt(Day0, <<"2","3","5","9">>), QsoAt(Day1, <<"0","0","0","5">>), QsoAt(Day1, <<"0","0","0","3">>)>> }
MapMetas == {MetaDefault, MetaFraction, MetaNegative}
MapDirs ==
  {Dir(m, a, FALSE, l) : m \in MapMetas, a \in Mp3Sets(DurSet, MaxFiles), l \in MapLogs}
InitMap == InitOn([1..1 -> MapDirs])
SpecMap == InitMap /\ [][Next]_vars

\* build_audio_window called on many timelines with many windows
WindowDurs == {0, Sec(60), Sec(60) + 1, Sec(60) + 2}
Instants ==
  {0 - Sec(5), 0, 1, Sec(55), Sec(60), Sec(60) + 1, Sec(65), Sec(120), Sec(120) + 2,
   Sec(200)}
WindowDirs ==
  {Dir(MetaDefault, a, FALSE, <<LineGood>>) : a \in Mp3Sets(WindowDurs, MaxFiles) \ {<<>>}}
InitWindow == InitOn([1..1 -> WindowDirs])
NextWindow ==
  \/ InitContests
  \/ \E a \in Instants, b \in Instants : BuildAudioWindow(1, a, b)
SpecWindow == InitWindow /\ [][NextWindow]_vars

\* the log parsed and written back, over many logs
ParseLines ==
  {HeaderStart, HeaderCall, LineNote, LineGood, LineWide, LineGlued, LineShort,
   LineBadTime}
ParseDirs ==
  {Dir(MetaDefault, <<Sec(60)>>, FALSE, l) : l \in Texts(ParseLines, MaxLines)}
InitParse == InitOn([1..1 -> ParseDirs])
NextParse ==
  \/ InitContests
  \/ BuildCabrilloSubset(1)
SpecParse == InitParse /\ [][NextParse]_vars

\* download_selection requests on a served session
Forms == {FormAbsent, FormText} \cup {FormInt(n) : n \in (0 - 1)..(MaxLines + 1)}
ServeLogs ==
  { <<HeaderStart, QsoAt(Day1, <<"0","0","0","1">>), QsoAt(Day1, <<"0","0","0","2">>), QsoAt(Day1, <<"0","0","0","0">>)>>,
    <<HeaderCall, QsoAt(Day0, <<"2","3","5","9">>), LineShort, QsoAt(Day1, <<"0","0","0","5">>)>> }
ServeDirs ==
  {Dir(m, a, FALSE, l) : m \in MapMetas,
                         a \in {<<Sec(60), Sec(60)>>, <<Sec(60) + 1, 0, Sec(60) + 1>>},
                         l \in ServeLogs}
InitServe == InitOn([1..1 -> ServeDirs])
NextServe ==
  \/ InitContests
  \/ \E c \in 1..2, a \in Forms, b \in Forms : DownloadSelection(c, a, b)
SpecServe == InitServe /\ [][NextServe]_vars


\* ------------------------------------------------------------------ claims
\* the sessions _attach_audio_positions has completed on
Attached == {contests[k] : k \in DOMAIN contests} \cup (IF pc = "built" THEN {self} ELSE {})
TotalDuration(s) == s.audio_index[Len(s.audio_index)].end
\* an event's offset into the recording, from its timestamp and the anchors:
\* (eventStreamStart - recordingStart) + (timestamp - eventStreamStart)
AbsoluteOffset(s, q) ==
  TotalSeconds(ParseTimeUtc(s.contest_start_utc), ParseTimeUtc(s.recording_start_utc))
  + TotalSeconds(q.datetime, ParseTimeUtc(s.contest_start_utc))
PlaybackStart(s, q) == AbsoluteOffset(s, q) - s.pre_seconds
\* max(0, min(playbackStart, total - epsilon))
ClampedStart(s, q) ==
  LET p == PlaybackStart(s, q)
      hi == TotalDuration(s) - Epsilon
  IN  IF p > hi THEN (IF hi < 0 THEN 0 ELSE hi) ELSE IF p < 0 THEN 0 ELSE p
\* the segments whose half-open interval [start, end) holds offset c
Holders(s, c) ==
  {i \in 1..Len(s.audio_index) : s.audio_index[i].start <= c /\ c < s.audio_index[i].end}
SetMin(S) == CHOOSE x \in S : \A y \in S : x <= y
SetMax(S) == CHOOSE x \in S : \A y \in S : x >= y
Clamp(x, lo, hi) == IF x < lo THEN lo ELSE IF x > hi THEN hi ELSE x
Abs(x) == IF x >= 0 THEN x ELSE 0 - x

\* index is the gapless timeline of the files, in name order, of these lengths
IndexOf(index, length) ==
  /\ Len(index) = Len(length)
  /\ Len(index) > 0
  /\ index[1].start = 0
  /\ \A i \in 1..Len(index) :
       /\ index[i].filename = i
       /\ index[i].end = index[i].start + length[i]
  /\ \A i \in 1..(Len(index) - 1) :
       /\ index[i].end = index[i + 1].start
       /\ index[i].start <= index[i + 1].start

\* C1: an audio index built from a non-empty file list starts at 0, each
\* segment ends at its start plus its file's duration, adjacent segments meet
\* (ordered, gapless, no overlap), the segments follow the sorted names; an
\* empty list of mp3 files makes the build fail.
C1_GaplessIndex ==
  /\ \A k \in DOMAIN contests : IndexOf(contests[k].audio_index, fs[k].mp3)
  /\ pc \in {"parse", "attach", "built"} => IndexOf(self.audio_index, fs[pos].mp3)
  /\ \A k \in 1..Len(fs) :
       fs[k].mp3 = <<>> =>
         /\ k \notin DOMAIN contests
         /\ ~(pos = k /\ pc \in {"parse", "attach", "built"})
C1_Witness ==
  \E k \in DOMAIN contests :
    /\ Len(contests[k].audio_index) >= 3
    /\ contests[k].audio_index[2].end = contests[k].audio_index[2].start
    /\ contests[k].audio_index[3].end % TicksPerMs # 0

\* event q of session s is resolved to the one segment holding its clamped
\* playback start, with the offset exact or rounded to the millisecond
ResolvedIn(s, q, exact) ==
  LET c == ClampedStart(s, q)
      H == Holders(s, c)
  IN  IF TotalDuration(s) > 0
      THEN /\ q.file # NoFile
           /\ Cardinality(H) = 1
           /\ \A h \in H :
                /\ q.file = s.audio_index[h].filename
                /\ IF exact THEN q.file_offset = c - s.audio_index[h].start
                   ELSE /\ q.file_offset % Ms(1) = 0
                        /\ 2 * Abs(q.file_offset - (c - s.audio_index[h].start))
                             <= Ms(1)
      ELSE q.file = NoFile

\* C2 as claimed: with a positive total duration every event has a file, the
\* one segment whose [start, end) holds the clamped playback start, and
\* file_offset is the clamped start minus that segment's start; file is null
\* only when the total duration is not positive.
C2_ExactOffset ==
  \A s \in Attached : \A i \in 1..Len(s.qsos) : ResolvedIn(s, s.qsos[i], TRUE)
\* C2 as amended: the same, with file_offset the clamped start minus the
\* segment's start rounded to the millisecond (a whole number of
\* milliseconds at most half a millisecond away from it).
C2_RoundedOffset ==
  \A s \in Attached : \A i \in 1..Len(s.qsos) : ResolvedIn(s, s.qsos[i], FALSE)
C2_Witness ==
  \E s \in Attached :
    /\ Len(s.audio_index) >= 2
    /\ \E i, j, k \in 1..Len(s.qsos) :
         /\ PlaybackStart(s, s.qsos[i]) < 0
         /\ PlaybackStart(s, s.qsos[j]) >= TotalDuration(s)
         /\ PlaybackStart(s, s.qsos[k]) = ClampedStart(s, s.qsos[k])
         /\ s.qsos[k].file = s.audio_index[2].filename
         /\ s.qsos[k].file_offset # ClampedStart(s, s.qsos[k]) - s.audio_index[2].start
         /\ s.qsos[j].file = s.audio_index[Len(s.audio_index)].filename

\* C3 as claimed: an event whose playback start is negative resolves to
\* segment 0 at offset 0, for every non-empty timeline.
C3_SegmentZero ==
  \A s \in Attached : \A i \in 1..Len(s.qsos) :
    PlaybackStart(s, s.qsos[i]) < 0 =>
      /\ s.qsos[i].file = s.audio_index[1].filename
      /\ s.qsos[i].file_offset = 0
\* C3 as amended: such an event resolves, at offset 0, to the first segment
\* of positive duration (segment 0 when its duration is positive), and to no
\* file only when no segment has a positive duration.
C3_FirstPositiveSegment ==
  \A s \in Attached : \A i \in 1..Len(s.qsos) :
    PlaybackStart(s, s.qsos[i]) < 0 =>
      LET P == {h \in 1..Len(s.audio_index) :
                  s.audio_index[h].end > s.audio_index[h].start}
      IN  /\ s.qsos[i].file_offset = 0
          /\ IF P = {} THEN s.qsos[i].file = NoFile
             ELSE \E h \in P : /\ \A g \in P : h <= g
                               /\ s.qsos[i].file = s.audio_index[h].filename
          /\ s.audio_index[1].end > 0 => s.qsos[i].file = s.audio_index[1].filename
C3_Witness ==
  \E s \in Attached : \E i \in 1..Len(s.qsos) :
    /\ PlaybackStart(s, s.qsos[i]) < 0
    /\ Len(s.audio_index) >= 3
    /\ s.audio_index[2].end = 0
    /\ s.qsos[i].file = s.audio_index[3].filename


\* C4: the export span of a non-empty selection is
\* (min(absoluteOffset) - preRoll, max(absoluteOffset) + preRoll) over the
\* selected events, absoluteOffset being the stored pre-clamp value
\* (eventStreamStart - recordingStart) + (timestamp - eventStreamStart); an
\* empty selection is rejected and no span is computed.
C4_ExportSpan ==
  /\ \A s \in Attached : \A i \in 1..Len(s.qsos) :
       s.qsos[i].abs_rec_second = AbsoluteOffset(s, s.qsos[i])
  /\ (resp.op = "download" /\ resp.contest \in DOMAIN contests) =>
       LET s == contests[resp.contest]
           A == {AbsoluteOffset(s, s.qsos[resp.selected[i]]) : i \in 1..Len(resp.selected)}
       IN  IF resp.selected = <<>>
           THEN resp.span = <<>> /\ resp.code = 400
           ELSE resp.span = <<SetMin(A) - s.pre_seconds, SetMax(A) + s.pre_seconds>>
C4_Witness ==
  /\ resp.op = "download" /\ resp.code = 200 /\ Len(resp.selected) >= 2
  /\ LET s == contests[resp.contest]
     IN  /\ \E i \in 1..Len(resp.selected) :
              ClampedStart(s, s.qsos[resp.selected[i]])
                # PlaybackStart(s, s.qsos[resp.selected[i]])
         /\ s.qsos[resp.selected[1]].abs_rec_second
              > s.qsos[resp.selected[2]].abs_rec_second
         /\ s.pre_seconds % Ms(1) # 0

\* C5: build_audio_window clamps start and end into [0, total] and raises
\* the empty-window error exactly when the clamped end is at most the clamped
\* start; no file is decoded when it does.
C5_EmptyWindow ==
  resp.op = "window" =>
    LET total == TotalDuration(contests[resp.contest])
        cs == Clamp(resp.start_s, 0, total)
        ce == Clamp(resp.end_s, 0, total)
    IN  /\ (resp.result.err = ErrEmptyWindow) <=> (ce <= cs)
        /\ resp.result.err = ErrEmptyWindow =>
             resp.result.decoded = <<>> /\ resp.result.combined = <<>>
        /\ resp.result.err # ErrNoIndex
C5_Witness ==
  /\ resp.op = "window"
  /\ resp.result.err = ErrEmptyWindow
  /\ resp.start_s < resp.end_s
  /\ resp.start_s > TotalDuration(contests[resp.contest])

\* C6: for a window that yields audio, the slices appended are, in
\* ascending segment order, the millisecond sub-range of each segment that
\* overlaps [start_ms, end_ms); a segment with no overlap contributes nothing,
\* and the result is end_ms - start_ms long.
C6_ExactStitch ==
  (resp.op = "window" /\ resp.result.err = "") =>
    LET s == contests[resp.contest]
        start_ms == IntMs(Clamp(resp.start_s, 0, TotalDuration(s)))
        end_ms == IntMs(Clamp(resp.end_s, 0, TotalDuration(s)))
        c == resp.result.combined
    IN  /\ \A i \in 1..(Len(c) - 1) : c[i].filename < c[i + 1].filename
        /\ \A h \in 1..Len(s.audio_index) :
             LET first == IntMs(s.audio_index[h].start)
                 lo == Max2(start_ms, first)
                 hi == Min2(end_ms, IntMs(s.audio_index[h].end))
                 P == {i \in 1..Len(c) : c[i].filename = s.audio_index[h].filename}
             IN  IF hi > lo
                 THEN \E i \in P : P = {i} /\ c[i].from = lo - first /\ c[i].to = hi - first
                 ELSE P = {}
        /\ AudioLen(c) = end_ms - start_ms
C6_Witness ==
  /\ resp.op = "window" /\ resp.result.err = ""
  /\ resp.start_s = Sec(55) /\ resp.end_s = Sec(65)
  /\ contests[resp.contest].audio_index[1].end = Sec(60)
  /\ resp.result.combined =
       <<[filename |-> 1, from |-> 55 * MsPerSec, to |-> 60 * MsPerSec],
         [filename |-> 2, from |-> 0, to |-> 5 * MsPerSec]>>


\* a line is an event line iff its stripped form begins with the marker
IsEventLine(l) == StartsWith(Strip(l), QsoMarker)
\* the whitespace-delimited tokens of a line after its first (the marker's)
TokensAfterMarker(l) == Tail(Split(l))
\* the lines that become events: event lines with at least 10 tokens after
\* the marker, in input order
AcceptedLines(lines) ==
  {i \in 1..Len(lines) : IsEventLine(lines[i]) /\ Len(TokensAfterMarker(lines[i])) >= 10}
TimesParse(lines) ==
  \A i \in AcceptedLines(lines) :
    ParseQsoTime(TokensAfterMarker(lines[i])[3], TokensAfterMarker(lines[i])[4]) # Failed
\* the event of line l has the line's tokens as its fields
EventOfLine(q, l) ==
  LET t == TokensAfterMarker(l)
  IN  /\ q.freq = t[1] /\ q.mode = t[2]
      /\ q.datetime = ParseQsoTime(t[3], t[4])
      /\ q.mycall = t[5] /\ q.rst_s = t[6] /\ q.exch_s = t[7]
      /\ q.hiscall = t[8] /\ q.rst_r = t[9] /\ q.exch_r = t[10]
\* what the claim says the parse of lines yields, of a session s
ParsedAs(s, lines, numbered) ==
  LET E == {i \in 1..Len(lines) : IsEventLine(lines[i])}
      first == IF E = {} THEN Len(lines) + 1 ELSE SetMin(E)
      A == AcceptedLines(lines)
  IN  /\ s.header_lines = SubSeq(lines, 1, first - 1)
      /\ Len(s.qsos) = Cardinality(A)
      /\ \A i \in A :
           LET n == Cardinality({j \in A : j <= i})
           IN  /\ EventOfLine(s.qsos[n], lines[i])
               /\ numbered => s.qsos[n].index = n
\* contest k's log has been through _parse_cabrillo
ParseRan(k) == pos > k \/ (pos = k /\ pc \in {"attach", "built"})

\* C7 as claimed: for every sequence of lines the parse yields the header
\* lines (those before the first event line, verbatim) and one event per
\* event line with at least 10 tokens after the marker, in input order,
\* numbered 1..n; every other line is dropped.
C7_ParseEveryLog ==
  \A k \in 1..Len(fs) :
    ParseRan(k) =>
      IF pos = k THEN ParsedAs(self, fs[k].log, pc = "built")
      ELSE k \in DOMAIN contests /\ ParsedAs(contests[k], fs[k].log, TRUE)
\* C7 as amended: that holds for every sequence of lines in which the date
\* and time of each event line with at least 10 tokens parse; for any other
\* sequence the parse raises and yields no header lines and no events.
C7_ParseWellTimedLog ==
  \A k \in 1..Len(fs) :
    ParseRan(k) =>
      IF TimesParse(fs[k].log)
      THEN IF pos = k THEN ParsedAs(self, fs[k].log, pc = "built")
           ELSE k \in DOMAIN contests /\ ParsedAs(contests[k], fs[k].log, TRUE)
      ELSE pos > k /\ k \notin DOMAIN contests
C7_Witness ==
  \E k \in DOMAIN contests :
    /\ Len(fs[k].log) = 3
    /\ fs[k].log[1] = LineShort
    /\ ~IsEventLine(fs[k].log[2])
    /\ Len(TokensAfterMarker(fs[k].log[3])) = 10
    /\ contests[k].header_lines = <<>>
    /\ Len(contests[k].qsos) = 1

\* the fields of an event that the log carries
Fields(q) ==
  <<q.freq, q.mode, q.datetime, q.mycall, q.rst_s, q.exch_s, q.hiscall, q.rst_r, q.exch_r>>

SelectionRule ==
  (resp.op = "download" /\ resp.contest \in DOMAIN contests) =>
    LET s == contests[resp.contest]
        a == resp.start_index
        b == resp.end_index
        lo == IF a.kind = "int" THEN a.val ELSE 0
        hi == IF b.kind = "int" THEN b.val ELSE 0
        hits == {i \in 1..Len(s.qsos) : lo <= i /\ i <= hi}
        rejected == lo > hi \/ lo <= 0 \/ hi <= 0 \/ hits = {}
                    \/ a.kind = "text" \/ b.kind = "text"
    IN  IF rejected
        THEN /\ resp.code = 400
             /\ resp.selected = <<>> /\ resp.span = <<>> /\ resp.decoded = <<>>
             /\ resp.audio = <<>> /\ resp.cab_text = <<>>
        ELSE /\ resp.code \in {200, 500}
             /\ Len(resp.selected) = Cardinality(hits)
             /\ \A i \in 1..Len(resp.selected) : resp.selected[i] = lo + i - 1
             /\ resp.code = 500 <=> BuildAudioWindowOf(s, resp.span[1], resp.span[2]).err # ""
             /\ resp.code = 200 =>
                  Len(ParseText(ReadLines(resp.cab_text)).qsos) = Cardinality(hits)

\* C9: a selection request whose start index exceeds its end index, or with
\* an index that is not positive, or that matches no event, is rejected
\* (status 400) with nothing selected or served; an accepted request selects
\* exactly the events with start <= index <= end in ascending index order; no
\* request changes a session, so requests after a rejected one are served
\* as they would have been.
C9_SelectionRange ==
  /\ []SelectionRule
  /\ [][pc = "serve" => contests' = contests /\ pc' = "serve"]_vars
C9_Witness ==
  /\ prev = 400
  /\ resp.op = "download" /\ resp.code = 200
  /\ resp.selected = <<2, 3>>
  /\ Len(contests[resp.contest].qsos) = 3

\* a directory with the three entries init_contests looks for
Complete(d) == d.isdir /\ d.has_audio /\ d.has_log /\ d.has_meta
\* a directory whose build raises at no step
Servable(d) ==
  /\ Complete(d)
  /\ d.meta.recording_start_utc # Absent /\ d.meta.contest_start_utc # Absent
  /\ ParseTimeUtc(d.meta.recording_start_utc) # Failed
  /\ ParseTimeUtc(d.meta.contest_start_utc) # Failed
  /\ d.mp3 # <<>>
  /\ TimesParse(d.log)
\* session s is the finished build of directory k
FullyBuilt(s, k) ==
  /\ s.id = k
  /\ s.recording_start_utc = fs[k].meta.recording_start_utc
  /\ s.contest_start_utc = fs[k].meta.contest_start_utc
  /\ Len(s.audio_index) = Len(fs[k].mp3)
  /\ Len(s.qsos) = Cardinality(AcceptedLines(fs[k].log))
  /\ \A i \in 1..Len(s.qsos) :
       /\ {"index", "abs_rec_second", "file", "file_offset"} \subseteq DOMAIN s.qsos[i]
       /\ s.qsos[i].index = i

\* C10: when the build of a contest fails at any step (a key missing from
\* metadata.json, no audio files, an event timestamp or an anchor time that
\* does not parse) that contest is not in the registry, the scan goes on to
\* the remaining contests, every contest whose build succeeds is registered,
\* and a registered session is fully built.
C10_FailedBuildExcluded ==
  /\ \A k \in DOMAIN contests : k < pos /\ Servable(fs[k]) /\ FullyBuilt(contests[k], k)
  /\ \A k \in 1..Len(fs) : (k < pos /\ Servable(fs[k])) => k \in DOMAIN contests
  /\ pc = "serve" => pos = Len(fs) + 1
C10_Witness ==
  /\ pc = "serve"
  /\ Complete(fs[1]) /\ fs[1].mp3 # <<>> /\ fs[1].meta.contest_start_utc # Absent
  /\ ParseTimeUtc(fs[1].meta.recording_start_utc) # Failed
  /\ ~TimesParse(fs[1].log)
  /\ DOMAIN contests = {2}

=============================================================================
